---- MODULE Spec2Model ----
(***************************************************************************)
(* The produce ripeness predictor: the App component (interaction          *)
(* controller) and the geminiService module (AI gateway).                  *)
(*                                                                         *)
(* React state is the VARIABLES.  An event handler runs to its first       *)
(* await in one step; every continuation after an await is one further     *)
(* step, so user events and responses interleave exactly at the awaits.    *)
(* A running async invocation is a record in the bag `tasks`; it carries   *)
(* the values its closure captured when it was invoked.                    *)
(***************************************************************************)
EXTENDS Integers, Sequences, FiniteSets, Bags, TLC

VARIABLES
    API_KEY,              \* process.env.API_KEY is set (a non-empty string)
    selectedProduceKey,   \* useState<ProduceKey>('apple')
    imageFile,            \* useState<File | null>
    imagePreviewUrl,      \* useState<string | null>
    prediction,           \* useState<PredictionResult | null>: <<>> is null, <<r>> a result
    predictionFor,        \* history: the (image, label) of the call whose result is stored
    isLoading,            \* useState<boolean>
    error,                \* useState<string | null>
    isCameraOpen,         \* useState<boolean>
    suggestedProduceKey,  \* useState<ProduceKey | null>
    searchText,           \* useState('')
    isSearchFocused,      \* useState(false)
    mediaSupported,       \* navigator.mediaDevices.getUserMedia exists on this device
    effects,              \* bag of the runs of the camera effect: their requests and streams
    tasks,                \* bag of async invocations suspended at an await
    callInput,            \* a gateway function called on its own: <<>> or <<its input>>
    callOutput            \* what that call gave: <<>> before it, <<its outcome>> after it

vars == << selectedProduceKey, imageFile, imagePreviewUrl, prediction, predictionFor,
           isLoading, error, isCameraOpen, suggestedProduceKey,
           searchText, isSearchFocused,
           API_KEY, mediaSupported, effects, tasks, callInput, callOutput >>

\* what no handler of the component changes
env == << API_KEY, mediaSupported, callInput, callOutput >>

\* the state of the search box
search == << searchText, isSearchFocused >>

RenderedWithoutKey == TRUE

\* App returns the "Configuration Error" screen before any hook when the key
\* is missing: the workflow's controls and handlers exist only past that return
Rendered == API_KEY

----------------------------------------------------------------------------
(* Bounds of the model *)

\* async invocations suspended at the same time
MaxTasks == 2

\* runs of the camera effect that hold a pending request or a live stream
MaxEffects == 2

----------------------------------------------------------------------------
(* Text: a string is a sequence of one-character strings *)

UpperAlpha == << "A","B","C","D","E","F","G","H","I","J","K","L","M",
                 "N","O","P","Q","R","S","T","U","V","W","X","Y","Z" >>
LowerAlpha == << "a","b","c","d","e","f","g","h","i","j","k","l","m",
                 "n","o","p","q","r","s","t","u","v","w","x","y","z" >>

LowerChar(c) ==
    IF \E i \in 1..26 : UpperAlpha[i] = c
    THEN LowerAlpha[CHOOSE i \in 1..26 : UpperAlpha[i] = c]
    ELSE c

\* String.prototype.toLowerCase
toLowerCase(s) == [i \in 1..Len(s) |-> LowerChar(s[i])]

IsSpace(c) == c \in {" ", "\n", "\t"}

RECURSIVE TrimLeft(_)
TrimLeft(s) == IF s # <<>> /\ IsSpace(Head(s)) THEN TrimLeft(Tail(s)) ELSE s

RECURSIVE TrimRight(_)
TrimRight(s) ==
    IF s # <<>> /\ IsSpace(s[Len(s)]) THEN TrimRight(SubSeq(s, 1, Len(s) - 1)) ELSE s

\* String.prototype.trim
trim(s) == TrimRight(TrimLeft(s))

\* String.prototype.includes
includes(s, sub) ==
    \E i \in 0..(Len(s) - Len(sub)) : SubSeq(s, i + 1, i + Len(sub)) = sub

----------------------------------------------------------------------------
(* The produce catalog (./constants) *)

PRODUCE ==
    << [value |-> "apple",  label |-> <<"A","p","p","l","e">>],
       [value |-> "banana", label |-> <<"B","a","n","a","n","a">>] >>

ProduceKeys == {PRODUCE[i].value : i \in 1..Len(PRODUCE)}

\* PRODUCE.find(p => p.value === produceKey).label
LabelOf(produceKey) ==
    PRODUCE[CHOOSE i \in 1..Len(PRODUCE) : PRODUCE[i].value = produceKey].label

\* null, for the state that holds a string or null
Null == "null"

----------------------------------------------------------------------------
(* AI gateway: identifyProduce (services/geminiService) *)

\* PRODUCE.find(p => p.label.toLowerCase().includes(name.toLowerCase())):
\* the index of the first such entry, 0 when there is none
FindByLabel(name) ==
    LET Matches(i) == includes(toLowerCase(PRODUCE[i].label), toLowerCase(name))
    IN  IF \E i \in 1..Len(PRODUCE) : Matches(i)
        THEN CHOOSE i \in 1..Len(PRODUCE) : Matches(i) /\ \A j \in 1..(i - 1) : ~Matches(j)
        ELSE 0

\* the value identifyProduce returns for the text the service answered
identifyProduce(responseText) ==
    LET detectedProduceName == trim(responseText)
        found == FindByLabel(detectedProduceName)
    IN  IF toLowerCase(detectedProduceName) = <<"n","o","n","e">>
        THEN "None"
        ELSE IF found # 0 THEN PRODUCE[found].value ELSE ""

\* p.label.split('(')[0].trim(): the name the prompt offers for an entry
NameOf(label) ==
    LET cut == IF \E i \in 1..Len(label) : label[i] = "("
               THEN CHOOSE i \in 1..Len(label) :
                        label[i] = "(" /\ \A j \in 1..(i - 1) : label[j] # "("
               ELSE Len(label) + 1
    IN  trim(SubSeq(label, 1, cut - 1))

----------------------------------------------------------------------------
(* AI gateway: getRipenessPrediction (services/geminiService) *)

\* JSON values of a scalar field; t is the JSON type, or "undefined" for an
\* absent field
Num(n)    == [t |-> "number",    n |-> n, s |-> ""]
Str(s)    == [t |-> "string",    n |-> 0, s |-> s]
Bool(b)   == [t |-> "boolean",   n |-> IF b THEN 1 ELSE 0, s |-> ""]
JNull     == [t |-> "null",      n |-> 0, s |-> ""]
Undefined == [t |-> "undefined", n |-> 0, s |-> ""]

\* the value of the infection_details field: t is its JSON type
Details(t, type, name, cause) == [t |-> t, type |-> type, name |-> name, cause |-> cause]
NoDetails(t) == Details(t, Undefined, Undefined, Undefined)

\* JavaScript's typeof
typeof(v) ==
    CASE v.t = "null"  -> "object"
      [] v.t = "array" -> "object"
      [] OTHER         -> v.t

\* the outcome of ai.models.generateContent and of JSON.parse on its text:
\*   "reject"  the call failed,   "invalid"  the text is no JSON,
\*   "null"    the text is the JSON null,   "object"  a JSON object
Response(kind, days, status, recommendation, infection_details, isPartlyMissing, missingPartDescription) ==
    [kind |-> kind, days |-> days, status |-> status,
     recommendation |-> recommendation, infection_details |-> infection_details,
     isPartlyMissing |-> isPartlyMissing,
     missingPartDescription |-> missingPartDescription]

\* the "Basic validation" of the parsed result: TRUE when it throws
InvalidStructure(result) ==
    \/ typeof(result.days) # "number"
    \/ typeof(result.status) # "string"
    \/ typeof(result.recommendation) # "string"
    \/ typeof(result.infection_details) # "object"
    \/ typeof(result.isPartlyMissing) # "boolean"
    \/ typeof(result.missingPartDescription) # "string"

\* <<result>> when getRipenessPrediction returns it, <<>> when it throws
getRipenessPrediction(response) ==
    IF response.kind = "reject" THEN <<>>
    ELSE IF response.kind = "invalid" THEN <<>>
    ELSE IF response.kind = "null" THEN <<>>
    ELSE IF InvalidStructure(response) THEN <<>>
    ELSE << response >>

----------------------------------------------------------------------------
(* Interaction controller: messages and async invocations *)

MsgValidation  == "Please select a produce item and an image first."
MsgInvalid     == "Invalid produce selected for analysis."
MsgAnalysis    == "Failed to complete analysis. The model may be unavailable. Please try again later."
MsgNotFound    == "No recognizable fruit or vegetable was found. Please try another photo."
MsgIdentify    == "An AI error occurred during identification. Please try again."
MsgNoContext   == "Failed to capture image: Could not get canvas context."
MsgNoBlob      == "Failed to capture image: Could not create blob from canvas."
MsgUnsupported == "Camera is not supported on this device."
MsgCamera      == "Could not access the camera. Please check browser permissions and ensure no other app is using it."

\* files the user can pick in the file dialog
UploadFiles == {"f1", "f2"}
\* new File([blob], `capture_${Date.now()}.jpg`, {type: 'image/jpeg'}): a captured frame
CapturedFile == "capture"

\* An async invocation suspended at an await.
\*   kind   the handler that was invoked
\*   pc     the await it is suspended at: "toBlob", "fileToBase64",
\*          "identifyProduce" (the identification call is in flight) or
\*          "getRipenessPrediction" (the prediction call is in flight)
\*   file   the image it works on (currentFile / imageFile of its closure)
\*   key    selectedProduceKey as its closure captured it
\*   produceKey, label   the arguments of continueAnalysis and of the prediction call
\*   via    how the prediction was reached: "direct", "accept", "decline"
Task(kind, pc, file, key, produceKey, label, via) ==
    [kind |-> kind, pc |-> pc, file |-> file, key |-> key,
     produceKey |-> produceKey, label |-> label, via |-> via]

Running == BagToSet(tasks)
Without(t) == tasks (-) SetToBag({t})
With(bag, t) == bag (+) SetToBag({t})
CanSpawn == BagCardinality(tasks) < MaxTasks

\* gateway calls in flight
InFlight(pc) == {t \in Running : t.pc = pc}
GatewayCalls == {t \in Running : t.pc \in {"identifyProduce", "getRipenessPrediction"}}
CallsInFlight == BagCardinality([t \in GatewayCalls |-> tasks[t]])

----------------------------------------------------------------------------
(* Interaction controller: the callbacks *)

\* useEffect(() => { if (selectedProduce) setSearchText(selectedProduce.label) },
\* [selectedProduce]): it runs after a step that changed the selected produce
useEffectSelectedProduce ==
    searchText' = IF selectedProduceKey' # selectedProduceKey /\ selectedProduceKey' \in ProduceKeys
                  THEN LabelOf(selectedProduceKey')
                  ELSE searchText

\* the reset without its setSuggestedProduceKey(null)
resetKeepsSuggestion ==
    /\ prediction' = <<>>
    /\ predictionFor' = <<>>
    /\ error' = Null
    /\ UNCHANGED suggestedProduceKey

resetAnalysisState ==
    /\ prediction' = <<>>
    /\ predictionFor' = <<>>
    /\ error' = Null
    /\ suggestedProduceKey' = Null

\* continueAnalysis to its await: the prediction call is issued.
\* `others` are the other suspended invocations.
continueAnalysis(produceKey, file, key, via, kind, others) ==
    IF produceKey \notin ProduceKeys
    THEN /\ error' = MsgInvalid
         /\ isLoading' = FALSE
         /\ tasks' = others
    ELSE /\ isLoading' = TRUE
         /\ error' = Null
         /\ tasks' = With(others, Task(kind, "getRipenessPrediction", file, key,
                                       produceKey, LabelOf(produceKey), via))

\* the check without its test of the file
MissingInputIgnoresFile(currentFile, key) == key \notin ProduceKeys

\* if (!currentFile || !selectedProduce)
MissingInput(currentFile, key) == currentFile = Null \/ key \notin ProduceKeys

\* the file without the argument: the image the closure holds
CurrentFileOfClosure(fileToAnalyze, closureImageFile) == closureImageFile

\* const currentFile = fileToAnalyze || imageFile
CurrentFile(fileToAnalyze, closureImageFile) ==
    IF fileToAnalyze # Null THEN fileToAnalyze ELSE closureImageFile

\* startAnalysis to its first await (fileToBase64), as the callback of the
\* render that captured closureImageFile and closureKey
startAnalysis(fileToAnalyze, closureImageFile, closureKey, others) ==
    LET currentFile == CurrentFile(fileToAnalyze, closureImageFile)
    IN  IF MissingInput(currentFile, closureKey)
        THEN /\ error' = MsgValidation
             /\ tasks' = others
             /\ UNCHANGED << isLoading, prediction, predictionFor,
                             suggestedProduceKey >>
        ELSE /\ isLoading' = TRUE
             /\ resetAnalysisState
             /\ tasks' = With(others, Task("startAnalysis", "fileToBase64", currentFile,
                                           closureKey, Null, <<>>, "none"))

\* the Analyze button without isLoading in its disabled attribute
AnalyzeEnabledWhileLoading == imageFile # Null /\ suggestedProduceKey = Null

\* the Analyze button: disabled={!imageFile || isLoading || !!suggestedProduceKey}
AnalyzeEnabled == imageFile # Null /\ ~isLoading /\ suggestedProduceKey = Null

\* onClick={() => startAnalysis()}
AnalyzeClick ==
    /\ Rendered
    /\ AnalyzeEnabled
    /\ CanSpawn
    /\ startAnalysis(Null, imageFile, selectedProduceKey, tasks)
    /\ UNCHANGED << selectedProduceKey, imageFile, imagePreviewUrl, isCameraOpen,
                    env, search, effects >>

\* startAnalysis() invoked as a function, whatever the button shows
CallStartAnalysis ==
    /\ Rendered
    /\ CanSpawn
    /\ startAnalysis(Null, imageFile, selectedProduceKey, tasks)
    /\ UNCHANGED << selectedProduceKey, imageFile, imagePreviewUrl, isCameraOpen,
                    env, search, effects >>

\* the continuation of fileToBase64
fileRead(t, ok) ==
    /\ t \in InFlight("fileToBase64")
    /\ IF t.kind = "startAnalysis"
       THEN IF ok
            THEN \* identifyProduce(base64Image, currentFile.type) is called
                 /\ tasks' = With(Without(t), [t EXCEPT !.pc = "identifyProduce"])
                 /\ UNCHANGED << isLoading, error >>
            ELSE /\ error' = MsgIdentify
                 /\ isLoading' = FALSE
                 /\ tasks' = Without(t)
               ELSE IF ok
            THEN continueAnalysis(t.produceKey, t.file, t.key, t.via, t.kind, Without(t))
            ELSE \* handleSuggestion rejects; nothing catches it
                 /\ tasks' = Without(t)
                 /\ UNCHANGED << isLoading, error >>
    /\ UNCHANGED << selectedProduceKey, imageFile, imagePreviewUrl, prediction,
                    predictionFor, isCameraOpen, suggestedProduceKey, env, search, effects >>

\* if (detectedProduceValue && detectedProduceValue !== selectedProduceKey)
IsSuggestion(detectedProduceValue, key) ==
    detectedProduceValue # "" /\ detectedProduceValue # key

\* texts the service answers an identification with
IdTexts ==
    { <<"A","p","p","l","e">>, <<"B","a","n","a","n","a">>, <<"N","o","n","e">>,
      <<" ","n","o","n","e","\n">>, <<"K","i","w","i">>, <<>> }

\* the continuation of identifyProduce: it threw (rejected = TRUE) or returned
\* identifyProduce(text)
identifyResponse(t, rejected, text) ==
    LET detectedProduceValue == identifyProduce(text)
    IN  /\ t \in InFlight("identifyProduce")
        /\ IF rejected
           THEN /\ error' = MsgIdentify
                /\ isLoading' = FALSE
                /\ tasks' = Without(t)
                /\ UNCHANGED suggestedProduceKey
           ELSE IF detectedProduceValue = "None"
           THEN /\ error' = MsgNotFound
                /\ isLoading' = FALSE
                /\ tasks' = Without(t)
                /\ UNCHANGED suggestedProduceKey
           ELSE IF IsSuggestion(detectedProduceValue, t.key)
           THEN /\ suggestedProduceKey' = detectedProduceValue
                /\ isLoading' = FALSE
                /\ tasks' = Without(t)
                /\ UNCHANGED error
           ELSE /\ continueAnalysis(t.key, t.file, t.key, "direct", t.kind, Without(t))
                /\ UNCHANGED suggestedProduceKey
        /\ UNCHANGED << selectedProduceKey, imageFile, imagePreviewUrl, prediction,
                        predictionFor, isCameraOpen, env, search, effects >>

\* a response that matches the schema
GoodResponse ==
    Response("object", Num(32), Str("Unripe"), Str("Wait"),
             Details("object", Str(""), Str(""), Str("")), Bool(FALSE), Str(""))

\* outcomes of a prediction call
PredResponses ==
    { GoodResponse,
      [GoodResponse EXCEPT !.kind = "reject"],
      [GoodResponse EXCEPT !.kind = "invalid"],
      [GoodResponse EXCEPT !.status = Undefined],
      [GoodResponse EXCEPT !.days = Str("3")],
      [GoodResponse EXCEPT !.infection_details = NoDetails("null")] }

\* the flag left true when the call threw
LoadingStuckOnFailure(threw) == threw

\* finally { setIsLoading(false) }
LoadingAfterPrediction(threw) == FALSE

\* the continuation of getRipenessPrediction in continueAnalysis
predictResponse(t, response) ==
    LET result == getRipenessPrediction(response)
    IN  /\ t \in InFlight("getRipenessPrediction")
        /\ IF result # <<>>
           THEN /\ prediction' = result
                /\ predictionFor' = << [image |-> t.file, label |-> t.label] >>
                /\ UNCHANGED error
           ELSE /\ error' = MsgAnalysis
                /\ UNCHANGED << prediction, predictionFor >>
        /\ isLoading' = LoadingAfterPrediction(result = <<>>)
        /\ tasks' = Without(t)
        /\ UNCHANGED << selectedProduceKey, imageFile, imagePreviewUrl,
                        isCameraOpen, suggestedProduceKey, env, search, effects >>

\* the choice without its test of useSuggestion
ProduceToAnalyzeSuggested(useSuggestion, suggested, selected) ==
    IF suggested # Null THEN suggested ELSE selected

\* (useSuggestion && suggestedProduceKey) ? suggestedProduceKey : selectedProduceKey
ProduceToAnalyze(useSuggestion, suggested, selected) ==
    IF useSuggestion /\ suggested # Null THEN suggested ELSE selected

\* the handler without its setSelectedProduceKey
SelectedKept(useSuggestion, suggested, selected) == selected

\* if (useSuggestion && suggestedProduceKey) setSelectedProduceKey(suggestedProduceKey)
SelectedAfterSuggestion(useSuggestion, suggested, selected) ==
    IF useSuggestion /\ suggested # Null THEN suggested ELSE selected

\* the two buttons of the "Did you mean" prompt, rendered when suggestedProduce
\* is found; handleSuggestion to its await (fileToBase64)
handleSuggestion(useSuggestion) ==
    /\ Rendered
    /\ suggestedProduceKey \in ProduceKeys
    /\ IF imageFile = Null
       THEN UNCHANGED << selectedProduceKey, suggestedProduceKey, tasks >>
       ELSE /\ CanSpawn
            /\ selectedProduceKey' =
                   SelectedAfterSuggestion(useSuggestion, suggestedProduceKey, selectedProduceKey)
            /\ suggestedProduceKey' = Null
            /\ tasks' = With(tasks,
                   Task("handleSuggestion", "fileToBase64", imageFile, selectedProduceKey,
                        ProduceToAnalyze(useSuggestion, suggestedProduceKey, selectedProduceKey),
                        <<>>, IF useSuggestion THEN "accept" ELSE "decline"))
    /\ useEffectSelectedProduce
    /\ UNCHANGED << imageFile, imagePreviewUrl, prediction, predictionFor, isLoading,
                    error, isCameraOpen, env, isSearchFocused, effects >>

\* onChange of the file input; file = Null is a change with no file selected
handleImageUpload(file) ==
    /\ Rendered
    /\ IF file # Null
       THEN /\ imageFile' = file
            /\ imagePreviewUrl' = << file >>
            /\ resetAnalysisState
       ELSE UNCHANGED << imageFile, imagePreviewUrl, prediction, predictionFor, error,
                         suggestedProduceKey >>
    /\ UNCHANGED << selectedProduceKey, isLoading, isCameraOpen,
                    env, search, effects, tasks >>

clearImage ==
    /\ imageFile' = Null
    /\ imagePreviewUrl' = <<>>
    /\ resetAnalysisState

\* the "Remove image" button:
\* imagePreviewUrl && !isCameraOpen, !isLoading && !prediction && !suggestedProduceKey
ClearEnabled ==
    /\ imagePreviewUrl # <<>> /\ ~isCameraOpen
    /\ ~isLoading /\ prediction = <<>> /\ suggestedProduceKey = Null

handleClearImage ==
    /\ Rendered
    /\ ClearEnabled
    /\ clearImage
    /\ UNCHANGED << selectedProduceKey, isLoading, isCameraOpen,
                    env, search, effects, tasks >>

\* the handler without its handleClearImage
ClearsImageNever(produceKey, selected) == FALSE

\* if (produceKey !== selectedProduceKey) handleClearImage()
ClearsImage(produceKey, selected) == produceKey # selected

handleProduceSelect(produceKey) ==
    /\ Rendered
    /\ IF ClearsImage(produceKey, selectedProduceKey)
       THEN clearImage
       ELSE UNCHANGED << imageFile, imagePreviewUrl, prediction, predictionFor, error,
                         suggestedProduceKey >>
    /\ selectedProduceKey' = produceKey
    /\ isSearchFocused' = FALSE
    /\ useEffectSelectedProduce
    /\ UNCHANGED << isLoading, isCameraOpen, env, effects, tasks >>

handleCameraOpen ==
    /\ Rendered
    /\ IF ~mediaSupported
       THEN /\ error' = MsgUnsupported
            /\ UNCHANGED isCameraOpen
       ELSE /\ error' = Null
            /\ isCameraOpen' = TRUE
    /\ UNCHANGED << selectedProduceKey, imageFile, imagePreviewUrl, prediction,
                    predictionFor, isLoading, suggestedProduceKey,
                    env, search, tasks >>

\* the "Close camera" button of the overlay: onClick={() => setIsCameraOpen(false)}
closeCamera ==
    /\ Rendered
    /\ isCameraOpen
    /\ isCameraOpen' = FALSE
    /\ UNCHANGED << selectedProduceKey, imageFile, imagePreviewUrl, prediction,
                    predictionFor, isLoading, error, suggestedProduceKey,
                    env, search, tasks >>

\* the capture button of the overlay; handleCapture to its await (canvas.toBlob).
\* The overlay renders the video and the canvas, so both refs are set.
\* context = FALSE: canvas.getContext('2d') returned null.
handleCapture(context) ==
    /\ Rendered
    /\ isCameraOpen
    /\ IF ~context
       THEN /\ error' = MsgNoContext
            /\ isCameraOpen' = FALSE
            /\ UNCHANGED tasks
       ELSE /\ CanSpawn
            /\ tasks' = With(tasks, Task("handleCapture", "toBlob", Null,
                                         selectedProduceKey, Null, <<>>, "none"))
            /\ UNCHANGED << error, isCameraOpen >>
    /\ UNCHANGED << selectedProduceKey, imageFile, imagePreviewUrl, prediction,
                    predictionFor, isLoading, suggestedProduceKey,
                    env, search >>

\* the continuation of canvas.toBlob in handleCapture; blob = FALSE: it gave null
captureBlob(t, blob) ==
    /\ t \in InFlight("toBlob")
    /\ IF ~blob
       THEN /\ error' = MsgNoBlob
            /\ isCameraOpen' = FALSE
            /\ tasks' = Without(t)
            /\ UNCHANGED << imageFile, imagePreviewUrl, prediction, predictionFor,
                            isLoading, suggestedProduceKey >>
       ELSE /\ imageFile' = CapturedFile
            /\ imagePreviewUrl' = << CapturedFile >>
            /\ isCameraOpen' = FALSE
            /\ startAnalysis(CapturedFile, imageFile, t.key, Without(t))
    /\ UNCHANGED << selectedProduceKey, env, search >>

----------------------------------------------------------------------------
(* Interaction controller: the search box *)

\* the list without its conversion of the query to lower case
filteredProduceCaseSensitive ==
    IF ~isSearchFocused THEN <<>>
    ELSE SelectSeq(PRODUCE, LAMBDA p : includes(toLowerCase(p.label), searchText))

\* useMemo(() => { if (!isSearchFocused) return []; ... }, [searchText, isSearchFocused])
filteredProduce ==
    IF ~isSearchFocused THEN <<>>
    ELSE SelectSeq(PRODUCE, LAMBDA p : includes(toLowerCase(p.label), toLowerCase(searchText)))

\* onFocus of the search input
handleSearchFocus ==
    /\ Rendered
    /\ isSearchFocused' = TRUE
    /\ searchText' = <<>>
    /\ UNCHANGED << selectedProduceKey, imageFile, imagePreviewUrl, prediction,
                    predictionFor, isLoading, error, isCameraOpen, suggestedProduceKey,
                    env, effects, tasks >>

\* texts the user types into the search input
SearchTexts ==
    { <<>>, <<"a">>, <<"A","P">>, <<"a","p","p","l","e">>, <<"n","a","n">>,
      <<"E">>, <<"x">>, <<"a","p","p","l","e","s">> }

\* onChange={(e) => setSearchText(e.target.value)}
setSearchText(text) ==
    /\ Rendered
    /\ searchText' = text
    /\ UNCHANGED << selectedProduceKey, imageFile, imagePreviewUrl, prediction,
                    predictionFor, isLoading, error, isCameraOpen, suggestedProduceKey,
                    isSearchFocused, env, effects, tasks >>

\* a mousedown outside the search container
handleClickOutside ==
    /\ Rendered
    /\ isSearchFocused' = FALSE
    /\ searchText' = IF selectedProduceKey \in ProduceKeys
                     THEN LabelOf(selectedProduceKey) ELSE searchText
    /\ UNCHANGED << selectedProduceKey, imageFile, imagePreviewUrl, prediction,
                    predictionFor, isLoading, error, isCameraOpen, suggestedProduceKey,
                    env, effects, tasks >>

\* a click on an entry of the result list, which is rendered while
\* isSearchFocused and shows filteredProduce
ProduceClick(produceKey) ==
    /\ isSearchFocused
    /\ \E i \in 1..Len(filteredProduce) : filteredProduce[i].value = produceKey
    /\ handleProduceSelect(produceKey)

----------------------------------------------------------------------------
(* Interaction controller: the camera effect, useEffect(..., [isCameraOpen]) *)

\* A run of the effect whose enableStream has called getUserMedia.
\*   pc       the await it is suspended at, "getUserMedia" or "play", or "done"
\*   cleaned  the cleanup function of this run has been called
\*   stream   the `stream` of its closure: "null", "live" or "stopped"
Effect(pc, cleaned, stream) == [pc |-> pc, cleaned |-> cleaned, stream |-> stream]

Effects == BagToSet(effects)

\* a run that has nothing pending and holds no live stream
Over(e) == e.pc = "done" /\ e.cleaned /\ e.stream # "live"

Put(bag, e) == IF Over(e) THEN bag ELSE bag (+) SetToBag({e})

\* return () => { if (stream) stream.getTracks().forEach(track => track.stop()) }
cleanup(e) ==
    [e EXCEPT !.cleaned = TRUE, !.stream = IF e.stream = "live" THEN "stopped" ELSE e.stream]

\* the cleanup of the run of the last render, if that run called getUserMedia
Cleaned(bag) ==
    LET mounted == {e \in BagToSet(bag) : ~e.cleaned}
    IN  IF mounted = {} THEN bag
        ELSE LET e == CHOOSE m \in mounted : TRUE
             IN  Put(bag (-) SetToBag({e}), cleanup(e))

\* the effect after the render of a step: when isCameraOpen changed, the
\* cleanup of the last run and then enableStream, which calls getUserMedia
\* if (isCameraOpen && videoRef.current)
AfterRender(bag) ==
    IF isCameraOpen' = isCameraOpen THEN bag
    ELSE IF isCameraOpen' THEN Cleaned(bag) (+) SetToBag({Effect("getUserMedia", FALSE, "null")})
    ELSE Cleaned(bag)

useEffectCamera ==
    /\ (isCameraOpen' /\ ~isCameraOpen) => BagCardinality(effects) < MaxEffects
    /\ effects' = AfterRender(effects)

\* the catch without its setIsCameraOpen(false)
SessionKeptOnFailure == isCameraOpen

\* catch (err) { ...; setIsCameraOpen(false) }: the overlay after a failure
SessionAfterFailure == FALSE

\* the continuation of getUserMedia in enableStream; granted = FALSE: it rejected.
\* videoRef.current is the video of the overlay, null while the camera is closed.
getUserMediaResponse(e, granted) ==
    LET others == effects (-) SetToBag({e})
    IN  /\ e \in Effects
        /\ e.pc = "getUserMedia"
        /\ IF ~granted
           THEN /\ error' = MsgCamera
                /\ isCameraOpen' = SessionAfterFailure
                /\ effects' = AfterRender(others)
           ELSE IF isCameraOpen
           THEN \* videoRef.current.srcObject = stream; await videoRef.current.play()
                /\ effects' = others (+) SetToBag({[e EXCEPT !.pc = "play", !.stream = "live"]})
                /\ UNCHANGED << error, isCameraOpen >>
           ELSE \* the assignment to videoRef.current.srcObject throws
                /\ error' = MsgCamera
                /\ isCameraOpen' = SessionAfterFailure
                /\ effects' = others (+) SetToBag({[e EXCEPT !.pc = "done", !.stream = "live"]})
        /\ UNCHANGED << selectedProduceKey, imageFile, imagePreviewUrl, prediction,
                        predictionFor, isLoading, suggestedProduceKey, search, env, tasks >>

\* the continuation of videoRef.current.play(); ok = FALSE: it rejected
playResponse(e, ok) ==
    LET others == effects (-) SetToBag({e})
    IN  /\ e \in Effects
        /\ e.pc = "play"
        /\ IF ok
           THEN /\ effects' = Put(others, [e EXCEPT !.pc = "done"])
                /\ UNCHANGED << error, isCameraOpen >>
           ELSE /\ error' = MsgCamera
                /\ isCameraOpen' = SessionAfterFailure
                /\ effects' = AfterRender(Put(others, [e EXCEPT !.pc = "done"]))
        /\ UNCHANGED << selectedProduceKey, imageFile, imagePreviewUrl, prediction,
                        predictionFor, isLoading, suggestedProduceKey, search, env, tasks >>

----------------------------------------------------------------------------
(* The specifications *)

InitController ==
    /\ selectedProduceKey = "apple"
    /\ imageFile = Null
    /\ imagePreviewUrl = <<>>
    /\ prediction = <<>>
    /\ predictionFor = <<>>
    /\ isLoading = FALSE
    /\ error = Null
    /\ isCameraOpen = FALSE
    /\ suggestedProduceKey = Null
    /\ searchText = LabelOf("apple")
    /\ isSearchFocused = FALSE
    /\ mediaSupported \in BOOLEAN
    /\ effects = EmptyBag
    /\ tasks = EmptyBag

Init ==
    /\ InitController
    /\ API_KEY \in BOOLEAN
    /\ callInput = <<>>
    /\ callOutput = <<>>

\* what the user and the environment can do to the rendered component.
\* Spec follows the analysis workflow: the search box is used only through the
\* pick of an entry, and the stream of the camera session is left to
\* SpecCamera.
Next ==
    \/ AnalyzeClick
    \/ \E file \in UploadFiles \cup {Null} : handleImageUpload(file)
    \/ handleClearImage
    \/ \E produceKey \in ProduceKeys : handleProduceSelect(produceKey)
    \/ handleCameraOpen /\ UNCHANGED effects
    \/ closeCamera /\ UNCHANGED effects
    \/ \E context \in BOOLEAN : handleCapture(context) /\ UNCHANGED effects
    \/ \E useSuggestion \in BOOLEAN : handleSuggestion(useSuggestion)
    \/ \E t \in Running, blob \in BOOLEAN : captureBlob(t, blob) /\ UNCHANGED effects
    \/ \E t \in Running, ok \in BOOLEAN : fileRead(t, ok)
    \/ \E t \in Running, text \in IdTexts : identifyResponse(t, FALSE, text)
    \/ \E t \in Running : identifyResponse(t, TRUE, <<>>)
    \/ \E t \in Running, response \in PredResponses : predictResponse(t, response)

Spec == Init /\ [][Next]_vars

\* the same events, the user picking one file in the dialog
NextLive ==
    \/ AnalyzeClick
    \/ \E file \in {"f1", Null} : handleImageUpload(file)
    \/ handleClearImage
    \/ \E produceKey \in ProduceKeys : handleProduceSelect(produceKey)
    \/ handleCameraOpen /\ UNCHANGED effects
    \/ closeCamera /\ UNCHANGED effects
    \/ \E context \in BOOLEAN : handleCapture(context) /\ UNCHANGED effects
    \/ \E useSuggestion \in BOOLEAN : handleSuggestion(useSuggestion)
    \/ \E t \in Running, blob \in BOOLEAN : captureBlob(t, blob) /\ UNCHANGED effects
    \/ \E t \in Running, ok \in BOOLEAN : fileRead(t, ok)
    \/ \E t \in Running, text \in IdTexts : identifyResponse(t, FALSE, text)
    \/ \E t \in Running : identifyResponse(t, TRUE, <<>>)
    \/ \E t \in Running, response \in PredResponses : predictResponse(t, response)

\* every pending promise of an analysis settles: the file reader, the canvas
\* and the AI service answer or fail
SpecLive ==
    /\ Init
    /\ [][NextLive]_vars
    /\ WF_vars(\E t \in Running, blob \in BOOLEAN : captureBlob(t, blob) /\ UNCHANGED effects)
    /\ WF_vars(\E t \in Running, ok \in BOOLEAN : fileRead(t, ok))
    /\ WF_vars(\E t \in Running, text \in IdTexts : identifyResponse(t, FALSE, text))
    /\ WF_vars(\E t \in Running, response \in PredResponses : predictResponse(t, response))

\* the camera session with its stream: the overlay, the capture and the
\* analysis it starts, and the camera effect
NextCamera ==
    \/ handleCameraOpen /\ useEffectCamera
    \/ closeCamera /\ useEffectCamera
    \/ \E context \in BOOLEAN : handleCapture(context) /\ useEffectCamera
    \/ \E t \in Running, blob \in BOOLEAN : captureBlob(t, blob) /\ useEffectCamera
    \/ \E e \in Effects, granted \in BOOLEAN : getUserMediaResponse(e, granted)
    \/ \E e \in Effects, ok \in BOOLEAN : playResponse(e, ok)
    \/ \E file \in {"f1", Null} : handleImageUpload(file)
    \/ \E t \in Running, ok \in BOOLEAN : fileRead(t, ok)
    \/ \E t \in Running, text \in IdTexts : identifyResponse(t, FALSE, text)
    \/ \E t \in Running : identifyResponse(t, TRUE, <<>>)
    \/ \E t \in Running, response \in PredResponses : predictResponse(t, response)

SpecCamera == Init /\ [][NextCamera]_vars

\* the search box and the selection made through it
NextSearch ==
    \/ handleSearchFocus
    \/ \E text \in SearchTexts : setSearchText(text)
    \/ handleClickOutside
    \/ \E produceKey \in ProduceKeys : ProduceClick(produceKey)
    \/ \E file \in UploadFiles \cup {Null} : handleImageUpload(file)
    \/ handleClearImage

SpecSearch == Init /\ [][NextSearch]_vars

\* the callbacks invoked as functions as well
NextCall == Next \/ CallStartAnalysis

SpecCall == Init /\ [][NextCall]_vars

----------------------------------------------------------------------------
(* getRipenessPrediction on its own, over the responses the service can give *)

DaysValues    == { Num(32), Num(-20), Str("3"), JNull, Undefined }
StringValues  == { Str("Ripe"), Num(1), Undefined }
BoolValues    == { Bool(TRUE), Bool(FALSE), Str("true"), Undefined }
DetailsValues ==
    { Details("object", Str(""), Str(""), Str("")),
      Details("object", Str("Fungal"), Str("anthracnose"), Str("moisture")),
      Details("object", Str(""), Undefined, Str("")),
      Details("object", Str(""), Str(""), Num(1)),
      NoDetails("object"), NoDetails("null"), NoDetails("array"),
      NoDetails("string"), NoDetails("undefined") }

AllResponses ==
    { Response("object", d, st, Str("Wait"), det, b, m) :
        d \in DaysValues, st \in StringValues, det \in DetailsValues,
        b \in BoolValues, m \in { Str(""), Undefined } }
    \cup { [GoodResponse EXCEPT !.recommendation = v] : v \in { Num(1), Undefined } }
    \cup { [GoodResponse EXCEPT !.kind = k] : k \in { "reject", "invalid", "null" } }

\* the responseSchema the request asks for: every required field, typed
MatchesSchema(r) ==
    /\ r.kind = "object"
    /\ r.days.t = "number"
    /\ r.status.t = "string"
    /\ r.recommendation.t = "string"
    /\ r.infection_details.t = "object"
    /\ r.infection_details.type.t = "string"
    /\ r.infection_details.name.t = "string"
    /\ r.infection_details.cause.t = "string"
    /\ r.isPartlyMissing.t = "boolean"
    /\ r.missingPartDescription.t = "string"

InitGateway ==
    /\ InitController
    /\ API_KEY = TRUE
    /\ callInput \in { << r >> : r \in AllResponses }
    /\ callOutput = <<>>

callGetRipenessPrediction ==
    /\ callInput # <<>>
    /\ callOutput = <<>>
    /\ callOutput' = << getRipenessPrediction(callInput[1]) >>
    /\ UNCHANGED << selectedProduceKey, imageFile, imagePreviewUrl, prediction,
                    predictionFor, isLoading, error, isCameraOpen, suggestedProduceKey,
                    search, API_KEY, mediaSupported, effects, tasks, callInput >>

SpecGateway == InitGateway /\ [][callGetRipenessPrediction]_vars

----------------------------------------------------------------------------
(* identifyProduce on its own, over the texts the service can answer *)

ServiceWords ==
    { <<"A","p","p","l","e">>, <<"a","p","p","l","e">>, <<"A","P","P","L","E">>,
      <<"B","a","n","a","n","a">>, <<"b","a","n","a","n","a">>,
      <<"N","o","n","e">>, <<"n","o","n","e">>, <<"N","O","N","E">>,
      <<"K","i","w","i">>, <<"A","p","p">>, <<"a","n">>, <<"e">>,
      <<"A","p","p","l","e","s">>, <<"N","o","n","e",".">>, <<>> }

\* white space around the answer
ServicePads == { <<>>, <<" ">>, <<"\n">> }

ServiceTexts == { pre \o word \o post : pre \in ServicePads, word \in ServiceWords, post \in ServicePads }

InitIdentify ==
    /\ InitController
    /\ API_KEY = TRUE
    /\ callInput \in { << text >> : text \in ServiceTexts }
    /\ callOutput = <<>>

callIdentifyProduce ==
    /\ callInput # <<>>
    /\ callOutput = <<>>
    /\ callOutput' = << identifyProduce(callInput[1]) >>
    /\ UNCHANGED << selectedProduceKey, imageFile, imagePreviewUrl, prediction,
                    predictionFor, isLoading, error, isCameraOpen, suggestedProduceKey,
                    search, API_KEY, mediaSupported, effects, tasks, callInput >>

SpecIdentify == InitIdentify /\ [][callIdentifyProduce]_vars

----------------------------------------------------------------------------
(* getDaysText on its own, over the days a prediction can carry *)

MaxDays == 5

\* one day in the unit the model counts days in: twentieths of a day, which
\* hold the tenths (3.2) and the quarters (0.25), all of them numbers whose
\* toFixed(1) does not depend on their binary rounding
DayUnit == 20

DisplayDays == { d \in (0 - MaxDays * DayUnit)..(MaxDays * DayUnit) : d % 2 = 0 \/ d % 5 = 0 }

DigitChar(n) == << "0", "1", "2", "3", "4", "5", "6", "7", "8", "9" >>[n + 1]

RECURSIVE ToDecimal(_)
ToDecimal(n) ==
    IF n < 10 THEN << DigitChar(n) >> ELSE ToDecimal(n \div 10) \o << DigitChar(n % 10) >>

\* days.toFixed(1): the sign, then the n for which n / 10 is closest to the
\* magnitude, the larger n of two equally close, written with one decimal
toFixed(days) ==
    LET x == IF days < 0 THEN 0 - days ELSE days
        n == IF x % 2 = 0 THEN x \div 2 ELSE (x + 1) \div 2
    IN  (IF days < 0 THEN << "-" >> ELSE << >>)
            \o ToDecimal(n \div 10) \o << "." >> \o << DigitChar(n % 10) >>

TextDays     == << " ", "d", "a", "y", "s" >>
TextReady    == << " ", "(", "R", "e", "a", "d", "y", "!", ")" >>
TextPastPeak == << " ", "(", "P", "a", "s", "t", " ", "P", "e", "a", "k", ")" >>

\* the test with both boundaries left out
IsReadyExclusive(days) == days > 0 /\ days < DayUnit

\* days >= 0 && days <= 1
IsReady(days) == days >= 0 /\ days <= DayUnit

getDaysText(days) ==
    IF days > DayUnit THEN toFixed(days) \o TextDays
    ELSE IF IsReady(days) THEN toFixed(days) \o TextDays \o TextReady
    ELSE toFixed(days) \o TextDays \o TextPastPeak

InitDays ==
    /\ InitController
    /\ API_KEY = TRUE
    /\ callInput \in { << days >> : days \in DisplayDays }
    /\ callOutput = <<>>

callGetDaysText ==
    /\ callInput # <<>>
    /\ callOutput = <<>>
    /\ callOutput' = << getDaysText(callInput[1]) >>
    /\ UNCHANGED << selectedProduceKey, imageFile, imagePreviewUrl, prediction,
                    predictionFor, isLoading, error, isCameraOpen, suggestedProduceKey,
                    search, API_KEY, mediaSupported, effects, tasks, callInput >>

SpecDays == InitDays /\ [][callGetDaysText]_vars

----------------------------------------------------------------------------
(* The claims *)

\* C1: startAnalysis() invoked with no file argument while imageFile is null
\* sets the validation error and returns: no identification or prediction
\* call is issued (no invocation is left running) and isLoading is not set.
C1_NoImageIsValidationError ==
    [][ (CallStartAnalysis /\ imageFile = Null) =>
            /\ error' = MsgValidation
            /\ tasks' = tasks
            /\ isLoading' = isLoading ]_vars

C1_Witness ==
    /\ error = MsgValidation
    /\ imageFile = Null
    /\ ~isLoading
    /\ tasks = EmptyBag

\* C2: when the identification call returns a catalog key that differs from
\* the selected produce key of the current state, the step ends in
\* SuggestionPending: suggestedProduceKey is the returned key, isLoading is
\* false and the analysis has ended without a prediction call.
C2_MismatchIsSuggestion ==
    [][ \A t \in Running, text \in IdTexts :
            ( /\ identifyResponse(t, FALSE, text)
              /\ identifyProduce(text) \in ProduceKeys
              /\ identifyProduce(text) # selectedProduceKey ) =>
            /\ suggestedProduceKey' = identifyProduce(text)
            /\ ~isLoading'
            /\ tasks' = Without(t) ]_vars

\* C3: when the identification call returns the selected produce key of the
\* current state, the step issues the prediction call for that produce and
\* suggestedProduceKey stays null.
C3_MatchIsDirectPrediction ==
    [][ \A t \in Running, text \in IdTexts :
            ( /\ identifyResponse(t, FALSE, text)
              /\ identifyProduce(text) = selectedProduceKey ) =>
            /\ suggestedProduceKey' = Null
            /\ \E u \in Running' :
                  /\ u.pc = "getRipenessPrediction"
                  /\ u.label = LabelOf(selectedProduceKey)
                  /\ tasks' = With(Without(t), u) ]_vars

\* C4: when the identification call returns "None", the step ends in Failed:
\* error is the retry-with-another-photo message, no prediction is stored,
\* isLoading is false and the analysis has ended without a prediction call.
C4_NoneIsFailed ==
    [][ \A t \in Running, text \in IdTexts :
            ( /\ identifyResponse(t, FALSE, text)
              /\ identifyProduce(text) = "None" ) =>
            /\ error' = MsgNotFound
            /\ prediction' = <<>>
            /\ ~isLoading'
            /\ tasks' = Without(t) ]_vars

\* C5: declining a pending suggestion always leaves selectedProduceKey
\* unchanged; when an image is present the decline starts one analysis for
\* the selected produce, and the prediction call that follows carries the
\* label of the produce that was selected when the user declined.
C5_DeclineKeepsSelection ==
    /\ [][ handleSuggestion(FALSE) =>
              /\ selectedProduceKey' = selectedProduceKey
              /\ (imageFile # Null) =>
                    \E u \in Running' :
                        /\ u.via = "decline"
                        /\ u.key = selectedProduceKey
                        /\ tasks' = With(tasks, u) ]_vars
    /\ [](\A t \in Running :
              (t.via = "decline" /\ t.pc = "getRipenessPrediction") =>
                  t.label = LabelOf(t.key))

C5_Witness ==
    /\ selectedProduceKey = "apple"
    /\ \E t \in Running :
          /\ t.via = "decline"
          /\ t.pc = "getRipenessPrediction"
          /\ t.key = "apple"
          /\ t.label = <<"A","p","p","l","e">>

\* C6: accepting a pending suggestion for the current image sets
\* selectedProduceKey to the suggested key in the step of the click, when no
\* prediction call has been issued yet (the invocation awaits fileToBase64),
\* keeps the image, and the prediction call that follows carries the label
\* of the suggested produce.
C6_AcceptSelectsSuggestion ==
    /\ [][ (handleSuggestion(TRUE) /\ imageFile # Null) =>
              /\ selectedProduceKey' = suggestedProduceKey
              /\ imageFile' = imageFile
              /\ imagePreviewUrl' = imagePreviewUrl
              /\ \E u \in Running' :
                    /\ u.via = "accept"
                    /\ u.pc = "fileToBase64"
                    /\ u.produceKey = suggestedProduceKey
                    /\ u.file = imageFile
                    /\ tasks' = With(tasks, u) ]_vars
    /\ [](\A t \in Running :
              (t.via = "accept" /\ t.pc = "getRipenessPrediction") =>
                  t.label = LabelOf(t.produceKey))

C6_Witness ==
    /\ selectedProduceKey = "banana"
    /\ \E t \in Running :
          /\ t.via = "accept"
          /\ t.pc = "getRipenessPrediction"
          /\ t.key = "apple"
          /\ t.produceKey = "banana"
          /\ t.label = <<"B","a","n","a","n","a">>
          /\ t.file = imageFile

\* C7: handleProduceSelect with a key other than the selected one, while an
\* image is loaded, clears image, preview, prediction, error and suggestion
\* and selects the new key; with the selected key it leaves image,
\* prediction and error as they are.
C7_SelectClearsImage ==
    [][ \A produceKey \in ProduceKeys :
            handleProduceSelect(produceKey) =>
                /\ (produceKey # selectedProduceKey /\ imageFile # Null) =>
                      /\ imageFile' = Null
                      /\ imagePreviewUrl' = <<>>
                      /\ prediction' = <<>>
                      /\ error' = Null
                      /\ suggestedProduceKey' = Null
                      /\ selectedProduceKey' = produceKey
                /\ (produceKey = selectedProduceKey) =>
                      /\ imageFile' = imageFile
                      /\ prediction' = prediction
                      /\ error' = error ]_vars

\* the analysis of f1 as an apple is still running, and the selection has
\* moved to banana with the image gone
C7_Witness ==
    /\ selectedProduceKey = "banana"
    /\ imageFile = Null
    /\ imagePreviewUrl = <<>>
    /\ isLoading
    /\ tasks = SetToBag({ Task("startAnalysis", "identifyProduce", "f1", "apple",
                                Null, <<>>, "none") })

\* C8: a prediction response that arrives but does not match the schema
\* makes getRipenessPrediction fail: the step stores no prediction, sets the
\* analysis error and clears isLoading.
C8_MalformedIsAnalysisError ==
    [][ \A t \in Running, response \in PredResponses :
            ( /\ predictResponse(t, response)
              /\ response.kind # "reject"
              /\ ~MatchesSchema(response) ) =>
            /\ prediction' = prediction
            /\ error' = MsgAnalysis
            /\ ~isLoading' ]_vars

\* C9: getRipenessPrediction returns a result only for a response in which
\* every required field, the three of infection_details included, is present
\* with its type.
C9_ReturnsOnlyWellFormed ==
    (callOutput # <<>> /\ callOutput[1] # <<>>) => MatchesSchema(callInput[1])

\* C10: at most one gateway call (identification or prediction) is in flight.
C10_AtMostOneCall == CallsInFlight <= 1

\* C11: at most one of the three outcomes is active: loading, an error, a
\* stored prediction.
C11_AtMostOneOutcome ==
    /\ ~(isLoading /\ error # Null)
    /\ ~(isLoading /\ prediction # <<>>)
    /\ ~(error # Null /\ prediction # <<>>)

\* analyses that have not ended: invocations suspended at fileToBase64 or at
\* a gateway call
Analyses == {t \in Running : t.pc \in {"fileToBase64", "identifyProduce", "getRipenessPrediction"}}

\* C12 as stated: when the pending promises settle, a state with isLoading
\* true is followed by one with isLoading false, and whenever no gateway call
\* is outstanding isLoading is false.
C12_LoadingDownWithoutCall ==
    /\ isLoading ~> ~isLoading
    /\ [](CallsInFlight = 0 => ~isLoading)

\* C12, amended: the loading flag is never left stuck: when the pending
\* promises settle, a state with isLoading true is followed by one with
\* isLoading false, and whenever no analysis is outstanding (no invocation is
\* suspended at fileToBase64 or at a gateway call) isLoading is false,
\* whatever the outcomes of the analyses were.
C12_LoadingEnds ==
    /\ isLoading ~> ~isLoading
    /\ [](Analyses = {} => ~isLoading)

\* an analysis has failed at its prediction call and left the flag down
C12_Witness ==
    /\ error = MsgAnalysis
    /\ ~isLoading
    /\ Analyses = {}
    /\ imageFile # Null

\* C13: no live camera stream is left while the camera session is closed.
C13_NoStreamWhenClosed ==
    ~isCameraOpen => \A e \in Effects : e.stream # "live"

\* C14: a stored prediction was computed from the image that is present now
\* and with the label of the produce that is selected now.
C14_PredictionIsCurrent ==
    prediction # <<>> =>
        /\ imageFile # Null
        /\ predictionFor = << [image |-> imageFile, label |-> LabelOf(selectedProduceKey)] >>

\* C15: after the click on a catalog entry the search text is that entry's
\* label and the search-focused mode has ended, whether or not the entry was
\* the selected one.
C15_SelectShowsLabel ==
    [][ \A produceKey \in ProduceKeys :
            ProduceClick(produceKey) =>
                searchText' = LabelOf(produceKey) /\ ~isSearchFocused' ]_vars

\* C16: while the search input has focus the result list is exactly the
\* catalog entries, in catalog order, whose label contains the search text
\* without regard to case; while it has no focus the list is empty.
C16_FilterIsContainment ==
    LET \* the label contains the text, letters compared without their case
        ContainsIgnoringCase(label, text) ==
            \E k \in 0..(Len(label) - Len(text)) :
                \A j \in 1..Len(text) : LowerChar(label[k + j]) = LowerChar(text[j])
    IN  filteredProduce =
            IF isSearchFocused
            THEN SelectSeq(PRODUCE, LAMBDA p : ContainsIgnoringCase(p.label, searchText))
            ELSE <<>>

\* an upper-case query that matches one entry
C16_Witness ==
    /\ isSearchFocused
    /\ searchText = <<"A","P">>
    /\ Len(filteredProduce) = 1
    /\ filteredProduce[1].value = "apple"

\* C17: for the text the service answered, identifyProduce gives "None" when
\* the trimmed text is "none" in any case, and otherwise a catalog key, the
\* key of the entry whose name is the trimmed text in any case; it gives
\* nothing else.
C17_ResolvesByName ==
    callOutput # <<>> =>
        LET name == toLowerCase(trim(callInput[1]))
            key == callOutput[1]
        IN  /\ name = <<"n","o","n","e">> => key = "None"
            /\ name # <<"n","o","n","e">> =>
                  /\ key \in ProduceKeys
                  /\ toLowerCase(NameOf(LabelOf(key))) = name

\* C18: in every state in which a suggestion is pending, each button of the
\* prompt clears suggestedProduceKey: the step the click takes ends with no
\* suggestion pending.
C18_AnswerClearsSuggestion ==
    (suggestedProduceKey # Null /\ CanSpawn) =>
        \A useSuggestion \in BOOLEAN :
            ENABLED (handleSuggestion(useSuggestion) /\ suggestedProduceKey' = Null)

\* C19: a capture whose frame is produced stores the frame as the image,
\* clears prediction, error and suggestion, closes the camera session and
\* starts one analysis of that frame, and every step in which an analysis
\* moves on (to the identification, to the prediction call) keeps its file;
\* a capture that fails (no canvas context, no blob) closes the camera
\* session as well and keeps the image.
C19_CaptureStartsPipeline ==
    [][ /\ \A t \in Running :
              captureBlob(t, TRUE) =>
                  /\ imageFile' = CapturedFile
                  /\ imagePreviewUrl' = << CapturedFile >>
                  /\ prediction' = <<>> /\ error' = Null /\ suggestedProduceKey' = Null
                  /\ ~isCameraOpen'
                  /\ isLoading'
                  /\ \E u \in Running' :
                        /\ u.kind = "startAnalysis" /\ u.pc = "fileToBase64"
                        /\ u.file = CapturedFile
                        /\ tasks' = With(Without(t), u)
        /\ \A t \in Running :
              captureBlob(t, FALSE) =>
                  ~isCameraOpen' /\ error' = MsgNoBlob /\ imageFile' = imageFile
        /\ handleCapture(FALSE) =>
              ~isCameraOpen' /\ error' = MsgNoContext /\ imageFile' = imageFile
        /\ \A t \in Running, u \in Running' :
              (t.kind = "startAnalysis" /\ t # u /\ tasks' = With(Without(t), u)) =>
                  /\ u.file = t.file
                  /\ t.pc = "fileToBase64" => u.pc = "identifyProduce"
                  /\ t.pc = "identifyProduce" => u.pc = "getRipenessPrediction" ]_vars

\* the frame has replaced the uploaded image and its analysis has started
C19_Witness ==
    /\ imageFile = CapturedFile
    /\ imagePreviewUrl = << CapturedFile >>
    /\ ~isCameraOpen
    /\ isLoading
    /\ prediction = <<>> /\ error = Null /\ suggestedProduceKey = Null
    /\ tasks = SetToBag({ Task("startAnalysis", "getRipenessPrediction", CapturedFile, "apple",
                               "apple", LabelOf("apple"), "direct") })

\* C20: an upload with a file selected makes that file the image and clears
\* prediction, error and suggestion, and it starts no invocation and leaves
\* isLoading as it is; an upload event with no file selected is possible in
\* every state of the rendered workflow and changes none of image,
\* prediction, error, suggestion and isLoading.
C20_UploadReplacesImage ==
    /\ [][ \A file \in UploadFiles :
              handleImageUpload(file) =>
                  /\ imageFile' = file
                  /\ imagePreviewUrl' = << file >>
                  /\ prediction' = <<>> /\ error' = Null /\ suggestedProduceKey' = Null
                  /\ tasks' = tasks
                  /\ isLoading' = isLoading ]_vars
    /\ [](Rendered =>
             ENABLED ( /\ handleImageUpload(Null)
                       /\ UNCHANGED << imageFile, imagePreviewUrl, prediction, error,
                                       suggestedProduceKey, isLoading, tasks >> ))

\* the upload has replaced the captured frame while the frame's analysis is
\* still running
C20_Witness ==
    /\ imageFile = "f1"
    /\ imagePreviewUrl = << "f1" >>
    /\ prediction = <<>> /\ error = Null /\ suggestedProduceKey = Null
    /\ isLoading
    /\ \E t \in Running : t.file = CapturedFile /\ t.pc = "getRipenessPrediction"

\* C21: with no API key in the environment the workflow is not rendered and
\* none of its actions (selection, upload, camera, analysis, a gateway call's
\* answer) is enabled: the state stays the one before any interaction, with
\* no invocation running, and every step that changes the state is taken
\* with the key set.
C21_NoKeyNoWorkflow ==
    /\ [](~API_KEY =>
            /\ ~Rendered
            /\ ~ENABLED Next
            /\ InitController
            /\ CallsInFlight = 0)
    /\ [][API_KEY]_vars

\* the component mounted without the key: nothing of the workflow can be done
C21_Witness ==
    /\ ~API_KEY
    /\ ~Rendered
    /\ ~ENABLED Next
    /\ tasks = EmptyBag

\* C22: while a suggestion is pending no prediction call is in flight, and a
\* step taken with a suggestion pending starts no prediction call: one starts
\* only after the user has answered the prompt.
C22_SuggestionBlocksAnalysis ==
    /\ [](suggestedProduceKey # Null => InFlight("getRipenessPrediction") = {})
    /\ [][ suggestedProduceKey # Null =>
               InFlight("getRipenessPrediction")' \subseteq InFlight("getRipenessPrediction") ]_vars

\* C23: the Analyze click is possible only in a state with an image, with
\* isLoading false and with no suggestion pending: in every state in which
\* isLoading is true or a suggestion is pending, and in every state without
\* an image, the click is not enabled.
C23_AnalyzeOnlyWhenIdle ==
    /\ ENABLED AnalyzeClick =>
           imageFile # Null /\ ~isLoading /\ suggestedProduceKey = Null
    /\ (isLoading \/ suggestedProduceKey # Null) => ~ENABLED AnalyzeClick

\* an image is present and an analysis is running: the button is disabled
C23_Witness ==
    /\ imageFile # Null
    /\ isLoading
    /\ CanSpawn
    /\ ~AnalyzeEnabled
    /\ ~ENABLED AnalyzeClick

\* C24: when the camera cannot be used the step that finds it out ends with
\* an error message and the camera session closed, and it leaves the image,
\* the prediction, the suggestion and the selected produce as they were:
\* the click on "Use Camera" on a device without the media API (possible in
\* every state of such a device), the rejection of getUserMedia and the
\* rejection of play().
C24_CameraFailureIsError ==
    /\ [][ /\ (handleCameraOpen /\ ~mediaSupported) =>
                  /\ error' = MsgUnsupported
                  /\ ~isCameraOpen'
                  /\ UNCHANGED << imageFile, imagePreviewUrl, prediction,
                                  suggestedProduceKey, selectedProduceKey >>
           /\ \A e \in Effects :
                  (getUserMediaResponse(e, FALSE) \/ playResponse(e, FALSE)) =>
                      /\ error' = MsgCamera
                      /\ ~isCameraOpen'
                      /\ UNCHANGED << imageFile, imagePreviewUrl, prediction,
                                      suggestedProduceKey, selectedProduceKey >> ]_vars
    /\ []((Rendered /\ ~mediaSupported) =>
             /\ ~isCameraOpen
             /\ ENABLED ( /\ handleCameraOpen /\ useEffectCamera
                          /\ error' = MsgUnsupported /\ ~isCameraOpen'
                          /\ UNCHANGED << imageFile, imagePreviewUrl, prediction,
                                          suggestedProduceKey, selectedProduceKey >> ))

\* the camera was refused while an uploaded image was displayed: the message
\* is shown, the overlay is gone and the image is still there
C24_Witness ==
    /\ error = MsgCamera
    /\ ~isCameraOpen
    /\ imageFile = "f1"
    /\ effects = EmptyBag

\* C25: when the identification answer resolves to no catalog entry
\* (identifyProduce returns ""), the step issues the prediction call for the
\* produce selected in the current state, suggestedProduceKey is null after
\* it and the step sets no error.
C25_UnresolvedIsDirectPrediction ==
    [][ \A t \in Running, text \in IdTexts :
            ( /\ identifyResponse(t, FALSE, text)
              /\ identifyProduce(text) = "" ) =>
            /\ suggestedProduceKey' = Null
            /\ error' = Null
            /\ \E u \in Running' :
                  /\ u.pc = "getRipenessPrediction"
                  /\ u.label = LabelOf(selectedProduceKey)
                  /\ tasks' = With(Without(t), u) ]_vars

\* C26: for every days value the text getDaysText returns is the value with
\* one decimal followed by exactly one of the three endings, chosen by the
\* thresholds: " days" alone above 1, " days (Ready!)" from 0 to 1 with both
\* boundaries, " days (Past Peak)" below 0; -2.0 is Past Peak, 0.5, 0 and 1
\* are Ready, 3.2 is plain.
C26_VariantByThreshold ==
    callOutput # <<>> =>
        LET days == callInput[1]
            text == callOutput[1]
            head == toFixed(days)
            ending == SubSeq(text, Len(head) + 1, Len(text))
        IN  /\ SubSeq(text, 1, Len(head)) = head
            /\ ending \in { TextDays, TextDays \o TextReady, TextDays \o TextPastPeak }
            /\ days > DayUnit <=> ending = TextDays
            /\ (days >= 0 /\ days <= DayUnit) <=> ending = TextDays \o TextReady
            /\ days < 0 <=> ending = TextDays \o TextPastPeak
            /\ days = 0 - 2 * DayUnit =>
                   text = << "-", "2", ".", "0" >> \o TextDays \o TextPastPeak
            /\ days = DayUnit \div 2 =>
                   text = << "0", ".", "5" >> \o TextDays \o TextReady
            /\ days = 0 => text = << "0", ".", "0" >> \o TextDays \o TextReady
            /\ days = DayUnit => text = << "1", ".", "0" >> \o TextDays \o TextReady
            /\ days = 3 * DayUnit + 4 => text = << "3", ".", "2" >> \o TextDays

\* the boundary 1 was given and the Ready text came back
C26_Witness ==
    /\ callInput = << DayUnit >>
    /\ callOutput = << << "1", ".", "0", " ", "d", "a", "y", "s",
                          " ", "(", "R", "e", "a", "d", "y", "!", ")" >> >>

====
